---- MODULE Spec2Model ----
(***************************************************************************)
(* bamboo_exporter: the Exporter's Collect cycle (src/bamboo_exporter.go)  *)
(* over the three Bamboo REST endpoints, with the Exporter's five gauges   *)
(* as the shared state of all Collect invocations and the registry that    *)
(* reads each sent metric after it was put on the invocation's channel.    *)
(***************************************************************************)
EXTENDS Integers, Sequences, FiniteSets, TLC

\* ------------------------------------------------------------------ bounds
\* longest JSON array the agents endpoint answers with
MaxAgents == 2
\* largest queuedBuilds.size the queue endpoint answers with
MaxSize == 2

\* ------------------------------------------------------------ data domains
\* Collect invocations that may be in flight (goroutines of the registry)
Inv == {"g1", "g2"}
\* the invocation a scrape runs as when it is the only one in progress
Lone == "g1"

Endpoints == {"info", "agents", "queue"}

\* lifecycle states the info endpoint reports
StateStrings == {"running", "RUNNING", "stopped"}

\* strings.ToLower on the strings of the model
ToLower(s) ==
  CASE s = "RUNNING" -> "running"
    [] s = "STOPPED" -> "stopped"
    [] OTHER -> s

SeqsUpTo(S, n) == UNION {[1..k -> S] : k \in 0..n}

\* A response body of the info endpoint: valid = it is well-formed JSON,
\* typed = "buildNumber" is a JSON string as BambooVersion.Build expects
\* (FALSE: a JSON number, e.g. {"buildNumber":60604,"state":"RUNNING"}).
BadInfo == [valid |-> FALSE, state |-> "", typed |-> TRUE]
InfoBodies ==
  {BadInfo} \cup [valid : {TRUE}, state : StateStrings, typed : BOOLEAN]

\* One element of the agents array: busy = its "busy" member, idTyped = its
\* "id" member is a JSON number as BambooAgent.Id expects (FALSE: a string,
\* e.g. {"id":"131073","name":"a1","busy":true}).
AgentJSON ==
  [busy : BOOLEAN, idTyped : {TRUE}] \cup {[busy |-> TRUE, idTyped |-> FALSE]}
\* A response body of the agents endpoint: isArray = the document is a JSON
\* array (FALSE: an object such as {"message":"..."}).
BadAgents == [valid |-> FALSE, isArray |-> FALSE, items |-> <<>>]
AgentsBodies ==
  {BadAgents, [valid |-> TRUE, isArray |-> FALSE, items |-> <<>>]}
    \cup [valid : {TRUE}, isArray : {TRUE}, items : SeqsUpTo(AgentJSON, MaxAgents)]

\* A response body of the queue endpoint: size = queuedBuilds.size, typed =
\* queuedBuilds."start-index" is a JSON number (FALSE: a string).
BadQueue == [valid |-> FALSE, size |-> 0, typed |-> TRUE]
QueueBodies ==
  {BadQueue} \cup [valid : {TRUE}, size : 0..MaxSize, typed : BOOLEAN]

\* What one GET meets: "transport" = HTTPClient.Do fails (network, timeout),
\* "status" = a response whose status code is not 200, "readerr" = a 200
\* whose body cannot be read to its end, "ok" = a 200 with the body read.
FailKinds == {"transport", "status", "readerr"}
Responses(bodies, bad) ==
  [kind : FailKinds, body : {bad}] \cup [kind : {"ok"}, body : bodies]

\* every answer each endpoint can give
AllAnswers ==
  [info |-> Responses(InfoBodies, BadInfo),
   agents |-> Responses(AgentsBodies, BadAgents),
   queue |-> Responses(QueueBodies, BadQueue)]

\* a server whose info and queue endpoints answer either with a 500 or with
\* one fixed document (state "RUNNING", MaxSize queued builds) and whose
\* agents endpoint answers with one busy agent
FlakyAnswers ==
  [info |-> {[kind |-> "status", body |-> BadInfo],
             [kind |-> "ok", body |-> [valid |-> TRUE, state |-> "RUNNING", typed |-> TRUE]]},
   agents |-> {[kind |-> "ok", body |-> [valid |-> TRUE, isArray |-> TRUE,
                                         items |-> <<[busy |-> TRUE, idTyped |-> TRUE]>>]]},
   queue |-> {[kind |-> "status", body |-> BadQueue],
              [kind |-> "ok", body |-> [valid |-> TRUE, size |-> MaxSize, typed |-> TRUE]]}]

\* no request made yet
NoResponse ==
  [info |-> [kind |-> "none", body |-> BadInfo],
   agents |-> [kind |-> "none", body |-> BadAgents],
   queue |-> [kind |-> "none", body |-> BadQueue]]

\* ------------------------------------------------------- Exporter.Do
\* HTTPClient.Do handed back a response (with a Body to close)
HasResponse(r) == r.kind # "transport"

\* the deferred response.Body.Close() was registered and ran
BodyClosed(r) == r.kind \in {"ok", "readerr"}

\* Do's (output, err): the bytes only of a 200 that was read to its end
DoErr(r) == r.kind # "ok"

\* ------------------------------------------------ json.Unmarshal per type
\* Unmarshal checks the whole document first and then fills the target as
\* far as it can, returning the earliest type mismatch as its error.
UnmarshalVersion(b) ==
  IF ~b.valid THEN [output |-> [State |-> ""], err |-> TRUE]
  ELSE [output |-> [State |-> b.state], err |-> ~b.typed]

DecodeAgent(a, k) ==
  [Id |-> IF a.idTyped THEN k ELSE 0, IsWorking |-> a.busy]

UnmarshalAgents(b) ==
  IF ~b.valid \/ ~b.isArray THEN [output |-> <<>>, err |-> TRUE]
  ELSE [output |-> [k \in DOMAIN b.items |-> DecodeAgent(b.items[k], k)],
        err |-> \E k \in DOMAIN b.items : ~b.items[k].idTyped]

UnmarshalQueue(b) ==
  IF ~b.valid THEN [output |-> [Size |-> 0], err |-> TRUE]
  ELSE [output |-> [Size |-> b.size], err |-> ~b.typed]

\* ------------------------------------------------ the typed accessors
GetVersion(r) ==
  IF DoErr(r) THEN [output |-> [State |-> ""], err |-> TRUE]
  ELSE UnmarshalVersion(r.body)

GetAgents(r) ==
  IF DoErr(r) THEN [output |-> <<>>, err |-> TRUE]
  ELSE UnmarshalAgents(r.body)

GetQueue(r) ==
  IF DoErr(r) THEN [output |-> [Size |-> 0], err |-> TRUE]
  ELSE UnmarshalQueue(r.body)

\* --------------------------------------------------------------- state
VARIABLES
  upstream,    \* the answers the Bamboo server may give on each endpoint
  gauges,      \* the Exporter's five prometheus.Gauge fields (shared)
  pc,          \* where each Collect invocation stands
  version,     \* Collect's local `version`
  agentList,   \* Collect's local `agentList`
  idx,         \* agents the range loop has passed
  busyAgents,  \* Collect's local `busyAgents`
  buildQueue,  \* Collect's local `buildQueue`
  err,         \* Collect's local `err` (TRUE: not nil)
  ch,          \* the metrics sent on the invocation's channel, not yet read
  out,         \* the samples the registry wrote from the invocation's metrics
  resp,        \* history: the answer each call of the invocation met
  reqs,        \* history: HTTP requests the invocation issued per endpoint
  open,        \* history: endpoints whose response body is still open
  failed,      \* history: the calls of the invocation that returned an error
  prev,        \* history: answers and samples of the scrape before (out = <<>>: none)
  stable       \* the upstream answers this scrape as it answered the one before

vars == <<upstream, gauges, pc, version, agentList, idx, busyAgents,
          buildQueue, err, ch, out, resp, reqs, open, failed, prev, stable>>

locals == <<version, agentList, idx, busyAgents, buildQueue, err>>
history == <<resp, reqs, open, failed>>
env == <<upstream, prev, stable>>

GaugeNames == {"up", "isRunning", "agentCountTotal", "agentCountBusy", "buildQueue"}

\* prometheus.BuildFQName of each gauge NewExporter builds
FQName(g) ==
  CASE g = "up" -> "bamboo_up"
    [] g = "isRunning" -> "bamboo_running"
    [] g = "agentCountTotal" -> "bamboo_agent_count_total"
    [] g = "agentCountBusy" -> "bamboo_agent_count_busy"
    [] g = "buildQueue" -> "bamboo_queue_count"

\* the buildAgent descriptor's name
AgentRowName == "bamboo_agent_busy"

NoPrev == [resp |-> NoResponse, out |-> <<>>]

ZeroLocals(i) ==
  /\ version' = [version EXCEPT ![i] = [State |-> ""]]
  /\ agentList' = [agentList EXCEPT ![i] = <<>>]
  /\ idx' = [idx EXCEPT ![i] = 0]
  /\ busyAgents' = [busyAgents EXCEPT ![i] = 0]
  /\ buildQueue' = [buildQueue EXCEPT ![i] = [Size |-> 0]]
  /\ err' = [err EXCEPT ![i] = FALSE]

ZeroHistory(i) ==
  /\ resp' = [resp EXCEPT ![i] = NoResponse]
  /\ reqs' = [reqs EXCEPT ![i] = [e \in Endpoints |-> 0]]
  /\ open' = [open EXCEPT ![i] = {}]
  /\ failed' = [failed EXCEPT ![i] = {}]

\* NewExporter: every gauge is a fresh prometheus.NewGauge (value 0) and no
\* Collect is running.
InitExporter ==
  /\ gauges = [g \in GaugeNames |-> 0]
  /\ pc = [i \in Inv |-> "idle"]
  /\ version = [i \in Inv |-> [State |-> ""]]
  /\ agentList = [i \in Inv |-> <<>>]
  /\ idx = [i \in Inv |-> 0]
  /\ busyAgents = [i \in Inv |-> 0]
  /\ buildQueue = [i \in Inv |-> [Size |-> 0]]
  /\ err = [i \in Inv |-> FALSE]
  /\ ch = [i \in Inv |-> <<>>]
  /\ out = [i \in Inv |-> <<>>]
  /\ resp = [i \in Inv |-> NoResponse]
  /\ reqs = [i \in Inv |-> [e \in Endpoints |-> 0]]
  /\ open = [i \in Inv |-> {}]
  /\ failed = [i \in Inv |-> {}]
  /\ prev = NoPrev
  /\ stable = FALSE

Init == upstream = AllAnswers /\ InitExporter

InitConcurrent == upstream = FlakyAnswers /\ InitExporter

\* ---------------------------------------------------- gauge and channel
\* prometheus.Gauge.Set
Set(g, v) == gauges' = [gauges EXCEPT ![g] = v]

\* ch <- e.<gauge>: the channel carries the Gauge itself, not its value
GaugeMetric(g) == [ref |-> TRUE, gauge |-> g, name |-> FQName(g), id |-> 0, value |-> 0]

\* prometheus.MustNewConstMetric(buildAgent, GaugeValue, isWorking, ..., id)
ConstMetric(id, v) == [ref |-> FALSE, gauge |-> "up", name |-> AgentRowName, id |-> id, value |-> v]

Send(i, m) == ch' = [ch EXCEPT ![i] = Append(@, m)]

Goto(i, l) == pc' = [pc EXCEPT ![i] = l]

\* ------------------------------------------------------- Exporter.Do
\* the answers the request of this scrape can meet on the endpoint
Answers(ep) == IF stable THEN {prev.resp[ep]} ELSE upstream[ep]

\* DoSend with a second request after a transport failure
DoSendRetrying(i, ep, r) ==
  /\ resp' = [resp EXCEPT ![i][ep] = r]
  /\ reqs' = [reqs EXCEPT ![i][ep] = IF HasResponse(r) THEN @ + 1 ELSE @ + 2]
  /\ open' = [open EXCEPT ![i] = IF HasResponse(r) THEN @ \cup {ep} ELSE @]

\* Do up to HTTPClient.Do: one request; a response comes with an open Body.
\* (http.NewRequest does not fail on a URI that main has parsed.)
DoSend(i, ep, r) ==
  /\ resp' = [resp EXCEPT ![i][ep] = r]
  /\ reqs' = [reqs EXCEPT ![i][ep] = @ + 1]
  /\ open' = [open EXCEPT ![i] = IF HasResponse(r) THEN @ \cup {ep} ELSE @]

\* Do from the status check on: the Body is closed where the defer ran
DoReturn(i, ep) ==
  /\ open' = [open EXCEPT ![i] = IF BodyClosed(resp[i][ep]) THEN @ \ {ep} ELSE @]
  /\ UNCHANGED <<resp, reqs>>

NoteErr(i, ep, e) == failed' = [failed EXCEPT ![i] = IF e THEN @ \cup {ep} ELSE @]

\* ---------------------------------------------------- Exporter.Collect
\* the registry's Gather starts a Collect of the Exporter on a fresh channel
Start(i) ==
  /\ ZeroLocals(i) /\ ZeroHistory(i)
  /\ ch' = [ch EXCEPT ![i] = <<>>]
  /\ out' = [out EXCEPT ![i] = <<>>]
  /\ Goto(i, "l147")
  /\ UNCHANGED <<upstream, gauges>>

\* a scrape that starts while no other scrape is in progress, of an upstream
\* that has changed since the scrape before or has not
Begin(i) ==
  /\ i = Lone
  /\ \A j \in Inv : pc[j] = "idle"
  /\ Start(i)
  /\ \E s \in BOOLEAN :
       /\ s => prev.out # <<>>
       /\ stable' = s
       /\ prev' = IF s THEN prev ELSE NoPrev

\* a scrape that starts whatever the other scrapes are doing
BeginConcurrent(i) ==
  /\ pc[i] = "idle"
  /\ Start(i)
  /\ UNCHANGED <<prev, stable>>

\* e.up.Set(1)
CollectSetUp(i) ==
  /\ pc[i] = "l147"
  /\ Set("up", 1)
  /\ Goto(i, "l149")
  /\ UNCHANGED <<env, locals, ch, out, history>>

\* e.isRunning.Set(0); version, err := e.GetVersion(), up to the HTTP round trip
GetVersionSend(i) ==
  /\ pc[i] = "l149"
  /\ Set("isRunning", 0)
  /\ \E r \in Answers("info") :
       /\ DoSend(i, "info", r)
       /\ IF HasResponse(r)
            THEN /\ Goto(i, "l150")
                 /\ UNCHANGED <<version, err, failed>>
            ELSE /\ version' = [version EXCEPT ![i] = GetVersion(r).output]
                 /\ err' = [err EXCEPT ![i] = GetVersion(r).err]
                 /\ NoteErr(i, "info", GetVersion(r).err)
                 /\ Goto(i, "l154")
  /\ UNCHANGED <<env, agentList, idx, busyAgents, buildQueue, ch, out>>

\* version, err := e.GetVersion(), from the response on
GetVersionReturn(i) ==
  /\ pc[i] = "l150"
  /\ DoReturn(i, "info")
  /\ version' = [version EXCEPT ![i] = GetVersion(resp[i].info).output]
  /\ err' = [err EXCEPT ![i] = GetVersion(resp[i].info).err]
  /\ NoteErr(i, "info", GetVersion(resp[i].info).err)
  /\ Goto(i, "l154")
  /\ UNCHANGED <<env, gauges, agentList, idx, busyAgents, buildQueue, ch, out>>

\* if strings.ToLower(version.State) == "running" { e.isRunning.Set(1) }
\* ch <- e.isRunning
CollectRunning(i) ==
  /\ pc[i] = "l154"
  /\ IF ToLower(version[i].State) = "running"
       THEN Set("isRunning", 1)
       ELSE UNCHANGED gauges
  /\ Send(i, GaugeMetric("isRunning"))
  /\ Goto(i, "l159")
  /\ UNCHANGED <<env, locals, out, history>>

\* e.agentCountTotal.Set(0); agentList, err := e.GetAgents(), up to the HTTP
\* round trip
GetAgentsSend(i) ==
  /\ pc[i] = "l159"
  /\ Set("agentCountTotal", 0)
  /\ \E r \in Answers("agents") :
       /\ DoSend(i, "agents", r)
       /\ IF HasResponse(r)
            THEN /\ Goto(i, "l160")
                 /\ UNCHANGED <<agentList, err, failed>>
            ELSE /\ agentList' = [agentList EXCEPT ![i] = GetAgents(r).output]
                 /\ err' = [err EXCEPT ![i] = GetAgents(r).err]
                 /\ NoteErr(i, "agents", GetAgents(r).err)
                 /\ Goto(i, "l164")
  /\ UNCHANGED <<env, version, idx, busyAgents, buildQueue, ch, out>>

\* agentList, err := e.GetAgents(), from the response on
GetAgentsReturn(i) ==
  /\ pc[i] = "l160"
  /\ DoReturn(i, "agents")
  /\ agentList' = [agentList EXCEPT ![i] = GetAgents(resp[i].agents).output]
  /\ err' = [err EXCEPT ![i] = GetAgents(resp[i].agents).err]
  /\ NoteErr(i, "agents", GetAgents(resp[i].agents).err)
  /\ Goto(i, "l164")
  /\ UNCHANGED <<env, gauges, version, idx, busyAgents, buildQueue, ch, out>>

\* e.agentCountTotal.Set(float64(len(agentList))); ch <- e.agentCountTotal
CollectTotal(i) ==
  /\ pc[i] = "l164"
  /\ Set("agentCountTotal", Len(agentList[i]))
  /\ Send(i, GaugeMetric("agentCountTotal"))
  /\ Goto(i, "l167")
  /\ UNCHANGED <<env, locals, out, history>>

\* CollectResetBusy with the count carried on from the gauge
CollectResetBusyCarrying(i) ==
  /\ pc[i] = "l167"
  /\ busyAgents' = [busyAgents EXCEPT ![i] = gauges["agentCountBusy"]]
  /\ idx' = [idx EXCEPT ![i] = 0]
  /\ Goto(i, "l170")
  /\ UNCHANGED <<env, gauges, version, agentList, buildQueue, err, ch, out, history>>

\* var busyAgents float64 = 0; e.agentCountBusy.Set(busyAgents)
CollectResetBusy(i) ==
  /\ pc[i] = "l167"
  /\ busyAgents' = [busyAgents EXCEPT ![i] = 0]
  /\ Set("agentCountBusy", 0)
  /\ idx' = [idx EXCEPT ![i] = 0]
  /\ Goto(i, "l170")
  /\ UNCHANGED <<env, version, agentList, buildQueue, err, ch, out, history>>

\* CollectAgentRow counting every agent as busy
CollectAgentRowCountingAll(i) ==
  /\ pc[i] = "l170"
  /\ idx[i] < Len(agentList[i])
  /\ LET agent == agentList[i][idx[i] + 1]
         isWorking == IF agent.IsWorking THEN 1 ELSE 0
     IN /\ busyAgents' = [busyAgents EXCEPT ![i] = @ + 1]
        /\ Send(i, ConstMetric(agent.Id, isWorking))
  /\ idx' = [idx EXCEPT ![i] = @ + 1]
  /\ UNCHANGED <<env, gauges, pc, version, agentList, buildQueue, err, out, history>>

\* one pass of `for _, agent := range agentList`: count the agent if it is
\* working and send its row
CollectAgentRow(i) ==
  /\ pc[i] = "l170"
  /\ idx[i] < Len(agentList[i])
  /\ LET agent == agentList[i][idx[i] + 1]
         isWorking == IF agent.IsWorking THEN 1 ELSE 0
     IN /\ busyAgents' = [busyAgents EXCEPT ![i] = IF agent.IsWorking THEN @ + 1 ELSE @]
        /\ Send(i, ConstMetric(agent.Id, isWorking))
  /\ idx' = [idx EXCEPT ![i] = @ + 1]
  /\ UNCHANGED <<env, gauges, pc, version, agentList, buildQueue, err, out, history>>

\* after the loop: e.agentCountBusy.Set(busyAgents); ch <- e.agentCountBusy
CollectBusy(i) ==
  /\ pc[i] = "l170"
  /\ idx[i] = Len(agentList[i])
  /\ Set("agentCountBusy", busyAgents[i])
  /\ Send(i, GaugeMetric("agentCountBusy"))
  /\ Goto(i, "l207")
  /\ UNCHANGED <<env, locals, out, history>>

\* e.buildQueue.Set(0); buildQueue, err := e.GetQueue(), up to the HTTP round
\* trip
GetQueueSend(i) ==
  /\ pc[i] = "l207"
  /\ Set("buildQueue", 0)
  /\ \E r \in Answers("queue") :
       /\ DoSend(i, "queue", r)
       /\ IF HasResponse(r)
            THEN /\ Goto(i, "l208")
                 /\ UNCHANGED <<buildQueue, err, failed>>
            ELSE /\ buildQueue' = [buildQueue EXCEPT ![i] = GetQueue(r).output]
                 /\ err' = [err EXCEPT ![i] = GetQueue(r).err]
                 /\ NoteErr(i, "queue", GetQueue(r).err)
                 /\ Goto(i, "l213")
  /\ UNCHANGED <<env, version, agentList, idx, busyAgents, ch, out>>

\* buildQueue, err := e.GetQueue(), from the response on
GetQueueReturn(i) ==
  /\ pc[i] = "l208"
  /\ DoReturn(i, "queue")
  /\ buildQueue' = [buildQueue EXCEPT ![i] = GetQueue(resp[i].queue).output]
  /\ err' = [err EXCEPT ![i] = GetQueue(resp[i].queue).err]
  /\ NoteErr(i, "queue", GetQueue(resp[i].queue).err)
  /\ Goto(i, "l213")
  /\ UNCHANGED <<env, gauges, version, agentList, idx, busyAgents, ch, out>>

\* e.buildQueue.Set(float64(buildQueue.QueuedBuilds.Size)); ch <- e.buildQueue
CollectQueue(i) ==
  /\ pc[i] = "l213"
  /\ Set("buildQueue", buildQueue[i].Size)
  /\ Send(i, GaugeMetric("buildQueue"))
  /\ Goto(i, "l216")
  /\ UNCHANGED <<env, locals, out, history>>

\* CollectUp returning without sending e.up when the scrape failed
CollectUpSilentOnError(i) ==
  /\ pc[i] = "l216"
  /\ IF err[i]
       THEN /\ Set("up", 0)
            /\ UNCHANGED ch
       ELSE /\ UNCHANGED gauges
            /\ Send(i, GaugeMetric("up"))
  /\ Goto(i, "done")
  /\ UNCHANGED <<env, locals, out, history>>

\* if err != nil { e.up.Set(0) }; ch <- e.up; return
CollectUp(i) ==
  /\ pc[i] = "l216"
  /\ IF err[i] THEN Set("up", 0) ELSE UNCHANGED gauges
  /\ Send(i, GaugeMetric("up"))
  /\ Goto(i, "done")
  /\ UNCHANGED <<env, locals, out, history>>

\* ------------------------------------------------------- the registry
\* The registry takes the next metric off the invocation's channel and
\* writes its sample: a Gauge is read now, a const metric has its value.
Write(i) ==
  /\ ch[i] # <<>>
  /\ LET m == Head(ch[i])
         v == IF m.ref THEN gauges[m.gauge] ELSE m.value
     IN out' = [out EXCEPT ![i] = Append(@, [name |-> m.name, id |-> m.id, value |-> v])]
  /\ ch' = [ch EXCEPT ![i] = Tail(@)]
  /\ UNCHANGED <<env, gauges, pc, locals, history>>

\* Collect has returned and the registry has written all it sent
Done(i) == pc[i] = "done" /\ ch[i] = <<>>

Clear(i) ==
  /\ ZeroLocals(i) /\ ZeroHistory(i)
  /\ ch' = [ch EXCEPT ![i] = <<>>]
  /\ out' = [out EXCEPT ![i] = <<>>]
  /\ Goto(i, "idle")

\* the scrape is answered; its answers and samples are what the next scrape
\* is compared with
Finish(i) ==
  /\ Done(i)
  /\ prev' = [resp |-> resp[i], out |-> out[i]]
  /\ stable' = FALSE
  /\ Clear(i)
  /\ UNCHANGED <<upstream, gauges>>

\* the scrape is answered, one of several in progress
FinishConcurrent(i) ==
  /\ Done(i)
  /\ Clear(i)
  /\ UNCHANGED <<env, gauges>>

Step(i) ==
  \/ CollectSetUp(i)
  \/ GetVersionSend(i) \/ GetVersionReturn(i) \/ CollectRunning(i)
  \/ GetAgentsSend(i) \/ GetAgentsReturn(i) \/ CollectTotal(i)
  \/ CollectResetBusy(i) \/ CollectAgentRow(i) \/ CollectBusy(i)
  \/ GetQueueSend(i) \/ GetQueueReturn(i) \/ CollectQueue(i)
  \/ CollectUp(i)
  \/ Write(i)

\* scrapes one after the other
Next == \E i \in Inv : Begin(i) \/ Step(i) \/ Finish(i)

Spec == Init /\ [][Next]_vars

\* scrapes that overlap
NextConcurrent == \E i \in Inv : BeginConcurrent(i) \/ Step(i) \/ FinishConcurrent(i)

ConcSpec == InitConcurrent /\ [][NextConcurrent]_vars

\* ------------------------------------------------ properties of a scrape
\* the samples of the invocation with the given metric name, in order
Samples(i, n) == SelectSeq(out[i], LAMBDA m : m.name = n)
\* the values of the invocation's samples with the given metric name
Values(i, n) == {out[i][k].value : k \in {j \in DOMAIN out[i] : out[i][j].name = n}}
Rows(i) == Samples(i, AgentRowName)
NumBusy(items) == Cardinality({k \in DOMAIN items : items[k].busy})

\* the agents the upstream's answer holds
AgentsReturned(r) ==
  IF r.kind = "ok" /\ r.body.valid /\ r.body.isArray THEN r.body.items ELSE <<>>

\* what a scrape running alone sends for the answers r, sample by sample
LoneScrape(r) ==
  LET v == GetVersion(r.info)
      a == GetAgents(r.agents)
      q == GetQueue(r.queue)
      fixed(g, x) == [name |-> FQName(g), id |-> 0, value |-> x]
      row(k) == [name |-> AgentRowName, id |-> a.output[k].Id,
                 value |-> IF a.output[k].IsWorking THEN 1 ELSE 0]
  IN <<fixed("isRunning", IF ToLower(v.output.State) = "running" THEN 1 ELSE 0),
       fixed("agentCountTotal", Len(a.output))>>
     \o [k \in DOMAIN a.output |-> row(k)]
     \o <<fixed("agentCountBusy", Cardinality({k \in DOMAIN a.output : a.output[k].IsWorking})),
          fixed("buildQueue", q.output.Size),
          fixed("up", IF q.err THEN 0 ELSE 1)>>

\* C1: in every cycle bamboo_up is 1 if and only if all three upstream
\* calls of the cycle succeeded
C1_UpIffAllCallsSucceeded ==
  \A i \in Inv : Done(i) =>
    Values(i, "bamboo_up") = {IF failed[i] = {} THEN 1 ELSE 0}

\* C2: every sample of an invocation is the one a scrape running alone
\* sends for the invocation's own upstream answers, whatever the other
\* invocations do meanwhile
C2_InvocationsIndependent ==
  \A i \in Inv : Done(i) => out[i] = LoneScrape(resp[i])

\* C3: a cycle whose agents call returned an error has an agent count total
\* of 0, an agent count busy of 0 and no agent rows
C3_AgentsFailureEmitsZeros ==
  \A i \in Inv : (Done(i) /\ "agents" \in failed[i]) =>
    /\ Values(i, "bamboo_agent_count_total") = {0}
    /\ Values(i, "bamboo_agent_count_busy") = {0}
    /\ Rows(i) = <<>>

\* C4: every cycle, whichever calls fail, emits each of the five fixed
\* gauges exactly once and one agent row per agent of the upstream's answer
C4_FixedGaugesOnceRowPerAgent ==
  \A i \in Inv : Done(i) =>
    /\ \A g \in GaugeNames : Len(Samples(i, FQName(g))) = 1
    /\ Len(out[i]) = Cardinality(GaugeNames) + Len(Rows(i))
    /\ Len(Rows(i)) = Len(AgentsReturned(resp[i].agents))
    /\ \A k \in DOMAIN Rows(i) : Rows(i)[k].id = agentList[i][k].Id

\* a cycle with a failed call and two agent rows has been answered
C4_Witness ==
  \E i \in Inv : Done(i) /\ failed[i] # {} /\ Len(Rows(i)) = MaxAgents

\* C5: bamboo_running is 0 whenever the info call returned an error, and
\* otherwise 1 exactly when the reported state is "running" in any case
C5_RunningZeroOnInfoFailure ==
  \A i \in Inv : Done(i) =>
    Values(i, "bamboo_running") =
      {IF "info" \in failed[i] THEN 0
       ELSE IF resp[i].info.body.state \in {"running", "RUNNING"} THEN 1 ELSE 0}

\* C6: a cycle in which only the queue call fails has a queue count of 0 and
\* an up of 0, and its other samples are those of the same cycle with a
\* queue call that succeeds
C6_QueueFailureEmitsZero ==
  \A i \in Inv : (Done(i) /\ failed[i] = {"queue"}) =>
    LET okQueue == [kind |-> "ok", body |-> [valid |-> TRUE, size |-> 0, typed |-> TRUE]]
        others(q) == SelectSeq(q, LAMBDA m : m.name \notin {"bamboo_queue_count", "bamboo_up"})
    IN /\ Values(i, "bamboo_queue_count") = {0}
       /\ Values(i, "bamboo_up") = {0}
       /\ others(out[i]) = others(LoneScrape([resp[i] EXCEPT !.queue = okQueue]))

Requested(ep) ==
  LET afterQueue == {"l208", "l213", "l216", "done"}
      afterAgents == {"l160", "l164", "l167", "l170", "l207"} \cup afterQueue
  IN CASE ep = "queue" -> afterQueue
       [] ep = "agents" -> afterAgents
       [] ep = "info" -> {"l150", "l154", "l159"} \cup afterAgents

\* C8: a cycle requests each endpoint exactly once: no call is retried and
\* no call is left out after an earlier one failed
C8_EachEndpointOnce ==
  \A i \in Inv : \A ep \in Endpoints :
    reqs[i][ep] = IF pc[i] \in Requested(ep) THEN 1 ELSE 0

\* a cycle whose info and agents calls failed has been answered
C8_Witness ==
  \E i \in Inv : Done(i) /\ {"info", "agents"} \subseteq failed[i]
                 /\ resp[i].info.kind = "transport"

\* C9: a scrape that meets the answers of the scrape before it emits the
\* samples of the scrape before it
C9_ConsecutiveScrapesAgree ==
  \A i \in Inv : (Done(i) /\ stable /\ resp[i] = prev.resp) => out[i] = prev.out

\* a second scrape of an unchanged upstream, with a failed call and a busy
\* agent, has been answered
C9_Witness ==
  \E i \in Inv :
    /\ Done(i) /\ stable /\ resp[i] = prev.resp
    /\ failed[i] # {}
    /\ \E k \in DOMAIN Rows(i) : Rows(i)[k].value = 1

\* C10: outside of Do no response body is open
C10_NoBodyLeftOpen ==
  \A i \in Inv : pc[i] \notin {"l150", "l160", "l208"} => open[i] = {}
====
